---- MODULE Spec2Model ----
(***************************************************************************)
(* slidevid: convert_to_mp4 (src/src/lib.rs).  One sequential run of the   *)
(* conversion: archive -> decoder -> scaler -> encoder -> container        *)
(* writer.  The decoder, the encoder, the archive and the muxer are the    *)
(* environment: every call into them answers nondeterministically within   *)
(* the send/receive contract of the codec API.                             *)
(***************************************************************************)
EXTENDS Integers, Sequences, FiniteSets, TLC

\* ------------------------------------------------------------------ bounds
MaxFrames == 3
MaxCodecFrames == 2

\* ------------------------------------------------------- program constants
MILLIS == 1000
DECODER_TIME_BASE == <<1, MILLIS>>
OUTPUT_TIME_BASE == <<1, 90000>>
YUV420P == "yuv420p"

\* -------------------------------------------------------------- input sets
\* A filename is the sequence of its bytes, one character each.
NamePNG == <<"a", ".", "P", "N", "G">>
NamePng == <<"b", ".", "p", "n", "g">>
NameMixed == <<"P", "n", "G">>
NameJpg == <<"a", ".", "j", "p", "g">>
NameJpeg == <<"a", ".", "j", "p", "e", "g">>
NameShort == <<"a">>
NameTwo == <<"n", "g">>
NamePngx == <<"p", "n", "g", "x">>
Names == {NamePNG, NamePng, NameMixed, NameJpg, NameJpeg, NameShort, NameTwo, NamePngx}

\* Delays in milliseconds (Frame.delay: u32; the interface asks for >= 1).
Delays == {100, 200, 250}

\* Geometries a decoder can report: <<pixel format, width, height>>.
Geoms == {<<"rgb24", 101, 99>>, <<"rgb24", 100, 98>>, <<"rgb24", 100, 99>>,
          <<"yuvj420p", 101, 99>>}

NoFrame == [fmt |-> "none", w |-> 0, h |-> 0, pts |-> 0]
NoScaler == [in |-> <<"none", 0, 0>>, out |-> <<"none", 0, 0>>]
NoEncoder == [w |-> 0, h |-> 0, fmt |-> "none", time_base |-> <<0, 1>>, frame_rate |-> <<0, 1>>]

\* ---------------------------------------------------------- pure functions
Upper == <<"A","B","C","D","E","F","G","H","I","J","K","L","M",
           "N","O","P","Q","R","S","T","U","V","W","X","Y","Z">>
Lower == <<"a","b","c","d","e","f","g","h","i","j","k","l","m",
           "n","o","p","q","r","s","t","u","v","w","x","y","z">>

to_ascii_lowercase(c) ==
    IF \E i \in 1..26 : Upper[i] = c
    THEN Lower[CHOOSE i \in 1..26 : Upper[i] = c]
    ELSE c

eq_ignore_ascii_case(a, b) ==
    /\ Len(a) = Len(b)
    /\ \A i \in 1..Len(a) : to_ascii_lowercase(a[i]) = to_ascii_lowercase(b[i])

codec_id_case_sensitive(name) ==
    IF Len(name) >= 3 /\ SubSeq(name, Len(name) - 2, Len(name)) = <<"p", "n", "g">>
    THEN "PNG"
    ELSE "MJPEG"

\* lib.rs 100-107: the decoder kind from the first frame's filename.
codec_id(name) ==
    IF Len(name) >= 3
       /\ eq_ignore_ascii_case(SubSeq(name, Len(name) - 2, Len(name)), <<"p", "n", "g">>)
    THEN "PNG"
    ELSE "MJPEG"

RECURSIVE SeqMin(_)
SeqMin(s) ==
    IF Len(s) = 1 THEN s[1]
    ELSE LET m == SeqMin(Tail(s)) IN IF s[1] < m THEN s[1] ELSE m

lowest_delay_or_zero(fs) ==
    IF Len(fs) = 0 THEN <<0>> ELSE <<SeqMin([i \in 1..Len(fs) |-> fs[i].delay])>>

RECURSIVE SeqMax(_)
SeqMax(s) ==
    IF Len(s) = 1 THEN s[1]
    ELSE LET m == SeqMax(Tail(s)) IN IF s[1] > m THEN s[1] ELSE m

lowest_delay_max(fs) ==
    IF Len(fs) = 0 THEN <<>> ELSE <<SeqMax([i \in 1..Len(fs) |-> fs[i].delay])>>

lowest_delay_first(fs) ==
    IF Len(fs) = 0 THEN <<>> ELSE <<fs[1].delay>>

\* lib.rs 92-95: frames.iter().map(|f| f.delay).min(), an Option: <<>> is
\* None, <<m>> is Some(m).
lowest_delay_of(fs) ==
    IF Len(fs) = 0 THEN <<>> ELSE <<SeqMin([i \in 1..Len(fs) |-> fs[i].delay])>>

av_rescale_down(a, b, c) == (a * b) \div c

\* av_rescale_rnd(a, b, c, AV_ROUND_NEAR_INF): a*b/c rounded to nearest,
\* halves away from zero (b >= 0, c > 0).
av_rescale_rnd(a, b, c) ==
    IF a < 0 THEN 0 - ((((0 - a) * b) + (c \div 2)) \div c)
    ELSE ((a * b) + (c \div 2)) \div c

\* Packet::rescale_ts(from, to) on one field (lib.rs 37, 71): av_rescale_q.
rescale(v, from, to) == av_rescale_rnd(v, from[1] * to[2], to[1] * from[2])

stamp_from_duration(t, duration, tb) ==
    [ms |-> duration,
     ms_duration |-> duration,
     pts |-> rescale(duration, DECODER_TIME_BASE, tb),
     duration |-> rescale(duration, DECODER_TIME_BASE, tb),
     key |-> TRUE]

stamp_no_key(t, duration, tb) ==
    [ms |-> t,
     ms_duration |-> duration,
     pts |-> rescale(t, DECODER_TIME_BASE, tb),
     duration |-> rescale(duration, DECODER_TIME_BASE, tb),
     key |-> FALSE]

\* lib.rs 34-37: the packet is flagged as a key unit, stamped with the
\* running timestamp and the frame's delay, and rescaled from the decoder's
\* time base to tb.  ms and ms_duration are the timestamp and the duration
\* before the rescale.
stamp(t, duration, tb) ==
    [ms |-> t,
     ms_duration |-> duration,
     pts |-> rescale(t, DECODER_TIME_BASE, tb),
     duration |-> rescale(duration, DECODER_TIME_BASE, tb),
     key |-> TRUE]

advance_none(t, duration) == t

\* lib.rs 38: *timestamp += duration.
advance(t, duration) == t + duration

out_pts_unscaled(p, tb) == p

\* lib.rs 71: packet.rescale_ts(time_base, OUTPUT_TIME_BASE) on the pts.
out_pts(p, tb) == rescale(p, tb, OUTPUT_TIME_BASE)

stream_time_base_encode(tb) == tb

\* lib.rs 148: stream.set_time_base(OUTPUT_TIME_BASE); tb is the encode
\* time base, which the statement does not use.
stream_time_base(tb) == OUTPUT_TIME_BASE

invert(q) == <<q[2], q[1]>>

pad_down(n) == n - (n % 2)

\* lib.rs 123: round a source dimension up to the next even number.
pad_even(n) == n + (n % 2)

geom_of(f) == <<f.fmt, f.w, f.h>>

needs_rebuild_size_only(src, f) == f.w # src[2] \/ f.h # src[3]

cached_native(sc, f) ==
    [in |-> geom_of(f), out |-> <<sc.out[1], f.w + (f.w % 2), f.h + (f.h % 2)>>]

\* lib.rs 52-55: scaler.cached(...) with the frame's source geometry and
\* the context's own destination.
cached(sc, f) == [in |-> geom_of(f), out |-> sc.out]

\* lib.rs 51: the scaler's cached source key against the decoded frame.
needs_rebuild(src, f) == f.fmt # src[1] \/ f.w # src[2] \/ f.h # src[3]

wrap_result_swallow(r) ==
    CASE r = "Ok" -> "true"
      [] OTHER -> "false"

\* lib.rs 77-84: Ok -> Ok(true); EAGAIN, Eof -> Ok(false); else the error.
wrap_result(r) ==
    CASE r = "Ok" -> "true"
      [] r \in {"EAGAIN", "EOF"} -> "false"
      [] OTHER -> "err"

\* ------------------------------------------------- environment's answers
\* decoder.receive_frame (lib.rs 121, 162, 168): a buffered frame, "try
\* again" while input is still accepted, "end of stream" once flushed and
\* empty, or a fatal error.
dec_answers(buf, eof) ==
    (IF buf # <<>> THEN {"Ok"} ELSE {})
    \cup (IF ~eof THEN {"EAGAIN"} ELSE IF buf = <<>> THEN {"EOF"} ELSE {})
    \cup {"Fatal"}

\* encoder.receive_packet (lib.rs 70): the same contract.
enc_answers(buf, eof) ==
    (IF buf # <<>> THEN {"Ok"} ELSE {})
    \cup (IF ~eof THEN {"EAGAIN"} ELSE IF buf = <<>> THEN {"EOF"} ELSE {})
    \cup {"Fatal"}

\* scaler.run (lib.rs 57): refuses a frame that is not of its source key.
run_answers(sc, f) == IF geom_of(f) # sc.in THEN {"Fatal"} ELSE {"Ok", "Fatal"}

\* Any other stage call: it succeeds or fails.
call_answers == {"Ok", "Fatal"}

\* ------------------------------------------------------------------ state
VARIABLES
    frames,       \* the Frame slice given to convert_to_mp4
    pc,           \* position in convert_to_mp4
    site,         \* which call of send_frame / receive_packet / the drain loop
    ret,          \* "running", "Ok" or "Err": what convert_to_mp4 returned
    err,          \* the error returned
    lowest_delay, \* lib.rs 92
    enc_tb,       \* lib.rs 111
    idx,          \* frames taken from the iterator (lib.rs 97, 98, 154)
    ts,           \* the running timestamp (lib.rs 110)
    decoder,      \* "none", or the codec id the decoder was opened as
    decBuf,       \* timestamps of the frames the decoder holds
    decEof,       \* decoder.send_eof was accepted
    decoded,      \* the decoded frame buffer (lib.rs 119)
    scaled,       \* the scaled frame buffer (lib.rs 120)
    dst,          \* <<dst_w, dst_h>> (lib.rs 123)
    scaler,       \* the scaling context: source key and destination
    encoder,      \* the encoder's settings (lib.rs 139-144)
    encBuf,       \* timestamps of the packets the encoder holds
    encEof,       \* encoder.send_eof was accepted
    output,       \* the container writer: stream, header, packets, trailer
    hist,         \* history of the run (not program state)
    phases,       \* the orchestrator's phases in order of entry (history)
    beat          \* parity of the number of statements run (history)

vars == <<frames, pc, site, ret, err, lowest_delay, enc_tb, idx, ts, decoder,
          decBuf, decEof, decoded, scaled, dst, scaler, encoder, encBuf, encEof,
          output, hist, phases, beat>>

NoOutput == [opened |-> FALSE, streams |-> <<>>, headers |-> 0,
             packets |-> <<>>, trailers |-> 0]

InitHist == [
    fatal |-> FALSE,        \* a stage call answered with a fatal error
    fatalOp |-> "none",     \* ... and which one
    afterFatal |-> 0,       \* stage calls made after that answer
    signal |-> FALSE,       \* a receive answered EAGAIN or EOF
    submitted |-> <<>>,     \* packets handed to the decoder
    names |-> <<>>,         \* ... and the archive entry each was read from
    decSince |-> "none",    \* the decoder's last answer since the last packet
    encSince |-> "none",    \* the encoder's last answer since the last frame
    emitted |-> <<>>,       \* timestamps of the frames the decoder gave out
    encEmitted |-> <<>>,    \* timestamps of the packets the encoder gave out
    received |-> 0,         \* frames taken from the decoder
    firstGeom |-> <<"none", 0, 0>>,  \* geometry of the first decoded frame
    sent |-> <<>>,          \* frames handed to the encoder
    rebuilds |-> 0,         \* scaler.cached calls
    rebuiltLast |-> FALSE,  \* the last send_frame rebuilt the plan
    changes |-> 0,          \* frames whose geometry differs from the one before
    lastGeom |-> <<"none", 0, 0>>,  \* geometry of the last frame scaled
    decEofs |-> 0, encEofs |-> 0,
    afterDecEof |-> 0,      \* packets submitted after the decoder's EOF
    afterEncEof |-> 0,      \* frames sent after the encoder's EOF
    decDrained |-> FALSE,   \* the drain after the decoder's EOF ended
    encDrained |-> FALSE,   \* the drain after the encoder's EOF ended
    writerBad |-> 0,        \* writer calls out of protocol order
    tbUses |-> {}]          \* time bases handed to a rescale as the encode base

FileFor(i) == <<NameJpg, NamePng, NameJpeg, NamePNG>>[((i - 1) % 4) + 1]

\* Inputs of the pipeline runs: every delay sequence up to MaxFrames.
PipelineInputs ==
    UNION {[1..n -> Delays] : n \in 0..MaxFrames}

\* Inputs of the codec-selection runs: every filename sequence.
CodecInputs ==
    UNION {[1..n -> Names] : n \in 1..MaxCodecFrames}

InitRest ==
    /\ pc = "open_archive" /\ site = "none" /\ ret = "running" /\ err = "none"
    /\ lowest_delay = 0 /\ enc_tb = <<0, 1>> /\ idx = 0 /\ ts = 0
    /\ decoder = "none" /\ decBuf = <<>> /\ decEof = FALSE
    /\ decoded = NoFrame /\ scaled = NoFrame /\ dst = <<0, 0>>
    /\ scaler = NoScaler /\ encoder = NoEncoder /\ encBuf = <<>> /\ encEof = FALSE
    /\ output = NoOutput /\ hist = InitHist /\ phases = <<"Init">> /\ beat = 0

Init ==
    /\ \E d \in PipelineInputs :
         frames = [i \in 1..Len(d) |-> [filename |-> FileFor(i), delay |-> d[i]]]
    /\ InitRest

\* Inputs of the termination runs: two delays, every length.
FairInputs ==
    UNION {[1..n -> {100, 250}] : n \in 0..MaxFrames}

InitFair ==
    /\ \E d \in FairInputs :
         frames = [i \in 1..Len(d) |-> [filename |-> FileFor(i), delay |-> d[i]]]
    /\ InitRest

InitCodec ==
    /\ \E n \in CodecInputs :
         frames = [i \in 1..Len(n) |-> [filename |-> n[i], delay |-> 100]]
    /\ InitRest

\* ------------------------------------------------------------ bookkeeping
\* One stage call `op` answered `r`.
Note(h, op, r) ==
    [h EXCEPT !.afterFatal = @ + (IF h.fatal THEN 1 ELSE 0),
              !.fatal = @ \/ r = "Fatal",
              !.fatalOp = IF ~h.fatal /\ r = "Fatal" THEN op ELSE @,
              !.signal = @ \/ r \in {"EAGAIN", "EOF"}]

\* The `?` operator: the function returns the error.
Return(e) == pc' = "done" /\ ret' = "Err" /\ err' = e

\* The orchestrator's phase at a position.
PhaseAt(p, s) ==
    CASE p \in {"open_archive", "lowest_delay", "open_decoder"} -> "Init"
      [] p \in {"send_first", "recv_first", "scaler_get", "open_output",
                "add_stream", "open_encoder", "write_header"} -> "StreamingFirstFrame"
      [] p \in {"send_frame", "recv_packet", "recv_frame"} /\ s = "first" -> "StreamingFirstFrame"
      [] p \in {"for_next", "send_packet"} -> "Streaming"
      [] p \in {"send_frame", "recv_packet", "recv_frame"} /\ s = "loop" -> "Streaming"
      [] p = "dec_eof" -> "DrainDecoder"
      [] p \in {"send_frame", "recv_packet", "recv_frame"} /\ s = "flush" -> "DrainDecoder"
      [] p = "enc_eof" -> "DrainEncoder"
      [] p = "recv_packet" /\ s = "final" -> "DrainEncoder"
      [] p = "write_trailer" -> "Finalized"
      [] OTHER -> "Returned"

\* The phase entered by this step, if it enters one; every statement run
\* is a step of its own, also one that leaves the program where it was.
Track ==
    /\ phases' = IF PhaseAt(pc', site') # PhaseAt(pc, site)
                 THEN Append(phases, PhaseAt(pc', site'))
                 ELSE phases
    /\ beat' = 1 - beat

after_setup_no_header(p) ==
    CASE p = "scaler_get" -> "open_output"
      [] p = "open_output" -> "add_stream"
      [] p = "add_stream" -> "open_encoder"
      [] OTHER -> "send_frame"

\* lib.rs 124-152: the straight-line set-up, statement after statement.
after_setup(p) ==
    CASE p = "scaler_get" -> "open_output"
      [] p = "open_output" -> "add_stream"
      [] p = "add_stream" -> "open_encoder"
      [] p = "open_encoder" -> "write_header"
      [] OTHER -> "send_frame"

after_drain_spin(s) ==
    CASE s = "first" -> "for_next"
      [] s = "final" -> "recv_packet"
      [] OTHER -> "recv_frame"

after_drain_flush_once(s) ==
    CASE s = "first" -> "for_next"
      [] s = "final" -> "write_trailer"
      [] s = "flush" -> "enc_eof"
      [] OTHER -> "recv_frame"

\* lib.rs 64-75: where a finished receive_packet returns to.
after_drain(s) ==
    CASE s = "first" -> "for_next"
      [] s = "final" -> "write_trailer"
      [] OTHER -> "recv_frame"

after_write_leave(s) ==
    CASE s = "first" -> "for_next"
      [] s = "final" -> "write_trailer"
      [] OTHER -> "recv_frame"

\* lib.rs 70-73: after a packet is written the while loop asks again.
after_write(s) == "recv_packet"

\* lib.rs 152-153, 163-164, 169-170: receive_packet follows send_frame.
after_frame_sent(s) == "recv_packet"

after_frames_stop(s) == "enc_eof"

\* lib.rs 162-172: where a finished decoder drain continues.
after_frames(s) == IF s = "loop" THEN "for_next" ELSE "enc_eof"

ErrOf(op, r) == IF r \in {"EAGAIN", "EOF"} THEN r ELSE op

Frame(g, pts) == [fmt |-> g[1], w |-> g[2], h |-> g[3], pts |-> pts]

\* ---------------------------------------------------------------- actions
\* lib.rs 91: ZipArchive::new(Cursor::new(zip))?
OpenArchive ==
    /\ pc = "open_archive"
    /\ \E r \in call_answers :
         /\ hist' = Note(hist, "archive_open", r)
         /\ IF r = "Ok"
            THEN pc' = "lowest_delay" /\ UNCHANGED <<ret, err>>
            ELSE Return("archive_open")
    /\ UNCHANGED <<frames, site, lowest_delay, enc_tb, idx, ts, decoder, decBuf,
                   decEof, decoded, scaled, dst, scaler, encoder, encBuf, encEof,
                   output>>
    /\ Track

\* lib.rs 92-96: the minimum delay, or the "0 frames" error.
LowestDelay ==
    /\ pc = "lowest_delay"
    /\ LET m == lowest_delay_of(frames) IN
         IF m = <<>>
         THEN Return("EmptyInput") /\ UNCHANGED lowest_delay
         ELSE pc' = "open_decoder" /\ lowest_delay' = m[1] /\ UNCHANGED <<ret, err>>
    /\ UNCHANGED <<frames, site, enc_tb, idx, ts, decoder, decBuf, decEof, decoded,
                   scaled, dst, scaler, encoder, encBuf, encEof, output, hist>>
    /\ Track

\* lib.rs 97-111: the first frame is taken from the iterator (unwrap), the
\* decoder is found by the filename's codec id and opened, ts and enc_tb set.
OpenDecoder ==
    /\ pc = "open_decoder"
    /\ IF Len(frames) = 0
       THEN /\ Return("panic")
            /\ UNCHANGED <<idx, decoder, enc_tb, hist>>
       ELSE \E r \in {"Ok", "NoDecoder", "OpenFailed"} :
            /\ idx' = 1
            /\ hist' = Note(hist, r, IF r = "Ok" THEN "Ok" ELSE "Fatal")
            /\ IF r = "Ok"
               THEN /\ decoder' = codec_id(frames[1].filename)
                    /\ enc_tb' = <<lowest_delay, MILLIS>>
                    /\ pc' = "send_first"
                    /\ UNCHANGED <<ret, err>>
               ELSE /\ Return(r)
                    /\ UNCHANGED <<decoder, enc_tb>>
    /\ UNCHANGED <<frames, site, lowest_delay, ts, decBuf, decEof, decoded, scaled,
                   dst, scaler, encoder, encBuf, encEof, output>>
    /\ Track

\* lib.rs 112-118 and 155-161 with send_packet (25-41): the entry is looked
\* up and read, the packet stamped, rescaled, and sent; ts advances before
\* the decoder answers.
SendPacket ==
    /\ pc \in {"send_first", "send_packet"}
    /\ LET f == frames[idx]
           pkt == stamp(ts, f.delay, enc_tb)
       IN \E r \in {"Ok", "by_name", "read", "dec_send"} :
            /\ IF r = "Ok"
               THEN /\ pc' = IF pc = "send_first" THEN "recv_first" ELSE "recv_frame"
                    /\ site' = IF pc = "send_first" THEN "first" ELSE "loop"
                    /\ decBuf' = Append(decBuf, pkt.pts)
                    /\ UNCHANGED <<ret, err>>
               ELSE /\ Return(r)
                    /\ UNCHANGED <<site, decBuf>>
            /\ ts' = IF r \in {"by_name", "read"} THEN ts ELSE advance(ts, f.delay)
            /\ hist' = LET h == Note(hist, r, IF r = "Ok" THEN "Ok" ELSE "Fatal") IN
                 IF r \in {"by_name", "read"} THEN h
                 ELSE [h EXCEPT !.submitted = Append(@, pkt),
                                !.names = Append(@, f.filename),
                                !.decSince = "none",
                                !.afterDecEof = @ + (IF decEof THEN 1 ELSE 0),
                                !.tbUses = @ \cup {enc_tb}]
    /\ UNCHANGED <<frames, lowest_delay, enc_tb, idx, decoder, decEof, decoded,
                   scaled, dst, scaler, encoder, encBuf, encEof, output>>
    /\ Track

\* lib.rs 121: decoder.receive_frame(decoded)? -- not through wrap_result.
RecvFirst ==
    /\ pc = "recv_first"
    /\ \E r \in dec_answers(decBuf, decEof) :
         /\ IF r = "Ok"
            THEN /\ \E g \in Geoms :
                      /\ decoded' = Frame(g, Head(decBuf))
                      /\ hist' = [Note(hist, "dec_recv", r) EXCEPT
                                     !.received = @ + 1, !.firstGeom = g,
                                     !.decSince = r,
                                     !.emitted = Append(@, Head(decBuf))]
                 /\ decBuf' = Tail(decBuf)
                 /\ pc' = "scaler_get"
                 /\ UNCHANGED <<ret, err>>
            ELSE /\ Return(ErrOf("dec_recv", r))
                 /\ hist' = [Note(hist, "dec_recv", r) EXCEPT !.decSince = r]
                 /\ UNCHANGED <<decoded, decBuf>>
    /\ UNCHANGED <<frames, site, lowest_delay, enc_tb, idx, ts, decoder, decEof,
                   scaled, dst, scaler, encoder, encBuf, encEof, output>>
    /\ Track

\* lib.rs 122-132: the destination size and the scaling context.
ScalerGet ==
    /\ pc = "scaler_get"
    /\ dst' = <<pad_even(decoded.w), pad_even(decoded.h)>>
    /\ \E r \in call_answers :
         /\ hist' = Note(hist, "scaler_get", r)
         /\ IF r = "Ok"
            THEN /\ scaler' = [in |-> geom_of(decoded),
                               out |-> <<YUV420P, dst'[1], dst'[2]>>]
                 /\ pc' = after_setup(pc)
                 /\ UNCHANGED <<ret, err>>
            ELSE /\ Return("scaler_get")
                 /\ UNCHANGED scaler
    /\ UNCHANGED <<frames, site, lowest_delay, enc_tb, idx, ts, decoder, decBuf,
                   decEof, decoded, scaled, encoder, encBuf, encEof, output>>
    /\ Track

\* lib.rs 133: format::output(&output_path)?
OpenOutput ==
    /\ pc = "open_output"
    /\ \E r \in call_answers :
         /\ hist' = Note(hist, "output_open", r)
         /\ IF r = "Ok"
            THEN /\ output' = [output EXCEPT !.opened = TRUE]
                 /\ pc' = after_setup(pc)
                 /\ UNCHANGED <<ret, err>>
            ELSE /\ Return("output_open")
                 /\ UNCHANGED output
    /\ UNCHANGED <<frames, site, lowest_delay, enc_tb, idx, ts, decoder, decBuf,
                   decEof, decoded, scaled, dst, scaler, encoder, encBuf, encEof>>
    /\ Track

\* lib.rs 134-137: the H.264 encoder is found and a stream added for it.
AddStream ==
    /\ pc = "add_stream"
    /\ \E r \in {"Ok", "NoEncoder", "add_stream"} :
         /\ hist' = [Note(hist, r, IF r = "Ok" THEN "Ok" ELSE "Fatal") EXCEPT
                        !.writerBad = @ + (IF r # "NoEncoder" /\ (output.headers > 0 \/ output.trailers > 0)
                                           THEN 1 ELSE 0)]
         /\ IF r = "Ok"
            THEN /\ output' = [output EXCEPT !.streams =
                                  Append(@, [kind |-> "video", time_base |-> <<0, 1>>])]
                 /\ pc' = after_setup(pc)
                 /\ UNCHANGED <<ret, err>>
            ELSE /\ Return(r)
                 /\ UNCHANGED output
    /\ UNCHANGED <<frames, site, lowest_delay, enc_tb, idx, ts, decoder, decBuf,
                   decEof, decoded, scaled, dst, scaler, encoder, encBuf, encEof>>
    /\ Track

\* lib.rs 138-149: the encoder is configured and opened, the stream gets
\* its parameters and its time base.
OpenEncoder ==
    /\ pc = "open_encoder"
    /\ \E r \in call_answers :
         /\ hist' = Note(hist, "encoder_open", r)
         /\ IF r = "Ok"
            THEN /\ encoder' = [w |-> dst[1], h |-> dst[2], fmt |-> YUV420P,
                                time_base |-> enc_tb, frame_rate |-> invert(enc_tb)]
                 /\ output' = [output EXCEPT
                                  !.streams[Len(output.streams)].time_base = stream_time_base(enc_tb)]
                 /\ pc' = after_setup(pc)
                 /\ UNCHANGED <<ret, err>>
            ELSE /\ Return("encoder_open")
                 /\ UNCHANGED <<encoder, output>>
    /\ UNCHANGED <<frames, site, lowest_delay, enc_tb, idx, ts, decoder, decBuf,
                   decEof, decoded, scaled, dst, scaler, encBuf, encEof>>
    /\ Track

\* lib.rs 150-152: output.write_header()?, then the first send_frame.
WriteHeader ==
    /\ pc = "write_header"
    /\ \E r \in call_answers :
         /\ hist' = [Note(hist, "write_header", r) EXCEPT
                        !.writerBad = @ + (IF output.streams = <<>> \/ output.headers > 0
                                              \/ output.trailers > 0 THEN 1 ELSE 0)]
         /\ IF r = "Ok"
            THEN /\ output' = [output EXCEPT !.headers = @ + 1]
                 /\ pc' = after_setup(pc)
                 /\ UNCHANGED <<ret, err>>
            ELSE /\ Return("write_header")
                 /\ UNCHANGED output
    /\ UNCHANGED <<frames, site, lowest_delay, enc_tb, idx, ts, decoder, decBuf, decEof,
                   decoded, scaled, dst, scaler, encoder, encBuf, encEof>>
    /\ Track

\* send_frame (lib.rs 43-62) at lib.rs 152, 163, 169: the plan is rebuilt
\* when the frame's geometry is not the cached key, the frame is scaled,
\* stamped and sent to the encoder.
SendFrame ==
    /\ pc = "send_frame"
    /\ LET reb == needs_rebuild(scaler.in, decoded)
           sc == IF reb THEN cached(scaler, decoded) ELSE scaler
           out == Frame(sc.out, decoded.pts)
       IN \E r1 \in run_answers(sc, decoded), r2 \in call_answers :
            /\ scaler' = sc
            /\ scaled' = IF r1 = "Ok" THEN out ELSE scaled
            /\ hist' = LET h1 == [Note(hist, "scale", r1) EXCEPT
                                     !.rebuilds = @ + (IF reb THEN 1 ELSE 0),
                                     !.rebuiltLast = reb,
                                     !.changes = @ + (IF hist.lastGeom # <<"none", 0, 0>>
                                                         /\ hist.lastGeom # geom_of(decoded)
                                                      THEN 1 ELSE 0),
                                     !.lastGeom = geom_of(decoded)]
                       IN IF r1 # "Ok" THEN h1
                          ELSE [Note(h1, "enc_send", r2) EXCEPT
                                   !.sent = Append(@, [geom |-> geom_of(out), pts |-> out.pts]),
                                   !.encSince = "none",
                                   !.afterEncEof = @ + (IF encEof THEN 1 ELSE 0)]
            /\ IF r1 = "Ok" /\ r2 = "Ok"
               THEN /\ encBuf' = Append(encBuf, out.pts)
                    /\ pc' = after_frame_sent(site)
                    /\ UNCHANGED <<ret, err>>
               ELSE /\ Return(IF r1 # "Ok" THEN "scale" ELSE "enc_send")
                    /\ UNCHANGED encBuf
    /\ UNCHANGED <<frames, site, lowest_delay, enc_tb, idx, ts, decoder, decBuf,
                   decEof, decoded, dst, encoder, encEof, output>>
    /\ Track

\* receive_packet (lib.rs 64-75), one turn of its loop: a packet is
\* received, rescaled to the output time base and written, or the loop ends.
ReceivePacket ==
    /\ pc = "recv_packet"
    /\ \E r \in enc_answers(encBuf, encEof), w \in call_answers :
         LET b == wrap_result(r) IN
         /\ hist' = LET h1 == Note(hist, "enc_recv", r)
                        h2 == IF b = "true"
                              THEN [Note(h1, "write_packet", w) EXCEPT
                                       !.tbUses = @ \cup {enc_tb},
                                       !.writerBad = @ + (IF output.headers # 1 \/ output.trailers > 0
                                                          THEN 1 ELSE 0)]
                              ELSE h1
                    IN [h2 EXCEPT !.encDrained = @ \/ (b = "false" /\ site = "final"),
                                  !.encSince = r,
                                  !.encEmitted = IF b = "true" THEN Append(@, Head(encBuf))
                                                 ELSE @]
         /\ CASE b = "true" /\ w = "Ok" ->
                   /\ output' = [output EXCEPT !.packets =
                         Append(@, [enc_pts |-> Head(encBuf),
                                    pts |-> out_pts(Head(encBuf), enc_tb)])]
                   /\ encBuf' = Tail(encBuf)
                   /\ pc' = after_write(site)
                   /\ UNCHANGED <<ret, err>>
              [] b = "true" /\ w # "Ok" ->
                   /\ encBuf' = Tail(encBuf)
                   /\ Return("write_packet")
                   /\ UNCHANGED output
              [] b = "false" ->
                   /\ pc' = after_drain(site)
                   /\ UNCHANGED <<ret, err, encBuf, output>>
              [] OTHER ->
                   /\ Return(ErrOf("enc_recv", r))
                   /\ UNCHANGED <<encBuf, output>>
    /\ UNCHANGED <<frames, site, lowest_delay, enc_tb, idx, ts, decoder, decBuf,
                   decEof, decoded, scaled, dst, scaler, encoder, encEof>>
    /\ Track

\* lib.rs 162 and 168: one turn of a decoder drain loop.
RecvFrame ==
    /\ pc = "recv_frame"
    /\ \E r \in dec_answers(decBuf, decEof) :
         LET b == wrap_result(r) IN
         /\ hist' = [Note(hist, "dec_recv", r) EXCEPT
                        !.received = @ + (IF b = "true" THEN 1 ELSE 0),
                        !.decSince = r,
                        !.emitted = IF b = "true" THEN Append(@, Head(decBuf)) ELSE @,
                        !.decDrained = @ \/ (b = "false" /\ site = "flush")]
         /\ CASE b = "true" ->
                   /\ \E g \in Geoms : decoded' = Frame(g, Head(decBuf))
                   /\ decBuf' = Tail(decBuf)
                   /\ pc' = "send_frame"
                   /\ UNCHANGED <<ret, err>>
              [] b = "false" ->
                   /\ pc' = after_frames(site)
                   /\ UNCHANGED <<ret, err, decoded, decBuf>>
              [] OTHER ->
                   /\ Return(ErrOf("dec_recv", r))
                   /\ UNCHANGED <<decoded, decBuf>>
    /\ UNCHANGED <<frames, site, lowest_delay, enc_tb, idx, ts, decoder, decEof,
                   scaled, dst, scaler, encoder, encBuf, encEof, output>>
    /\ Track

\* lib.rs 154: the for loop takes the next frame, or ends.
ForNext ==
    /\ pc = "for_next"
    /\ IF idx < Len(frames)
       THEN idx' = idx + 1 /\ pc' = "send_packet"
       ELSE idx' = idx /\ pc' = "dec_eof"
    /\ UNCHANGED <<frames, site, ret, err, lowest_delay, enc_tb, ts, decoder, decBuf,
                   decEof, decoded, scaled, dst, scaler, encoder, encBuf, encEof,
                   output, hist>>
    /\ Track

\* lib.rs 167: decoder.send_eof()?
DecoderSendEof ==
    /\ pc = "dec_eof"
    /\ \E r \in call_answers :
         /\ hist' = [Note(hist, "dec_eof", r) EXCEPT !.decEofs = @ + 1]
         /\ IF r = "Ok"
            THEN /\ decEof' = TRUE
                 /\ pc' = "recv_frame"
                 /\ site' = "flush"
                 /\ UNCHANGED <<ret, err>>
            ELSE /\ Return("dec_eof")
                 /\ UNCHANGED <<decEof, site>>
    /\ UNCHANGED <<frames, lowest_delay, enc_tb, idx, ts, decoder, decBuf, decoded,
                   scaled, dst, scaler, encoder, encBuf, encEof, output>>
    /\ Track

\* lib.rs 172: encoder.send_eof()?
EncoderSendEof ==
    /\ pc = "enc_eof"
    /\ \E r \in call_answers :
         /\ hist' = [Note(hist, "enc_eof", r) EXCEPT !.encEofs = @ + 1]
         /\ IF r = "Ok"
            THEN /\ encEof' = TRUE
                 /\ pc' = "recv_packet"
                 /\ site' = "final"
                 /\ UNCHANGED <<ret, err>>
            ELSE /\ Return("enc_eof")
                 /\ UNCHANGED <<encEof, site>>
    /\ UNCHANGED <<frames, lowest_delay, enc_tb, idx, ts, decoder, decBuf, decEof,
                   decoded, scaled, dst, scaler, encoder, encBuf, output>>
    /\ Track

\* lib.rs 174-175: output.write_trailer()?; Ok(())
WriteTrailer ==
    /\ pc = "write_trailer"
    /\ \E r \in call_answers :
         /\ hist' = [Note(hist, "write_trailer", r) EXCEPT
                        !.writerBad = @ + (IF output.headers # 1 \/ output.trailers > 0
                                           THEN 1 ELSE 0)]
         /\ pc' = "done"
         /\ IF r = "Ok"
            THEN /\ output' = [output EXCEPT !.trailers = @ + 1]
                 /\ ret' = "Ok"
                 /\ UNCHANGED err
            ELSE /\ ret' = "Err" /\ err' = "write_trailer"
                 /\ UNCHANGED output
    /\ UNCHANGED <<frames, site, lowest_delay, enc_tb, idx, ts, decoder, decBuf,
                   decEof, decoded, scaled, dst, scaler, encoder, encBuf, encEof>>
    /\ Track

Next ==
    \/ OpenArchive
    \/ LowestDelay
    \/ OpenDecoder
    \/ SendPacket
    \/ RecvFirst
    \/ ScalerGet
    \/ OpenOutput
    \/ AddStream
    \/ OpenEncoder
    \/ WriteHeader
    \/ SendFrame
    \/ ReceivePacket
    \/ RecvFrame
    \/ ForNext
    \/ DecoderSendEof
    \/ EncoderSendEof
    \/ WriteTrailer

Spec == Init /\ [][Next]_vars

SpecCodec == InitCodec /\ [][Next]_vars

\* convert_to_mp4 is one synchronous thread: every stage call returns and
\* the next statement runs.
SpecFair == InitFair /\ [][Next]_vars /\ WF_vars(Next)

\* ================================================================= claims
Returned == pc = "done"

NoOutputIO == output = NoOutput

NothingOpened == decoder = "none" /\ encoder = NoEncoder /\ scaler = NoScaler

\* C1 as stated: with an empty frame sequence convert fails with
\* EmptyInput, does no output-file operation and opens no decoder or encoder.
C1_AsStated ==
    (Len(frames) = 0 /\ Returned) =>
        (ret = "Err" /\ err = "EmptyInput" /\ NoOutputIO /\ NothingOpened)

\* C1 amended: with an empty frame sequence convert never gets past the
\* minimum-delay computation; it fails with EmptyInput when the archive
\* opened and with the archive's error when it did not (the archive is
\* opened first), and in either case does no output-file operation and
\* opens no decoder or encoder.
C1_EmptyInput ==
    Len(frames) = 0 =>
        /\ pc \in {"open_archive", "lowest_delay", "done"}
        /\ Returned => /\ ret = "Err"
                       /\ err = (IF hist.fatal THEN "archive_open" ELSE "EmptyInput")
        /\ hist.fatal => hist.fatalOp = "archive_open"
        /\ NoOutputIO /\ NothingOpened /\ hist.submitted = <<>>

C1_Witness == Len(frames) = 0 /\ Returned /\ err = "EmptyInput"

\* C2 as stated: no run of convert returns EAGAIN or EOF as its error, the
\* receive after the first frame's packet included.
C2_NoDrainSignalReturned ==
    ret = "Err" => err \notin {"EAGAIN", "EOF"}

\* C3: once a stage operation has failed with an error that is not a drain
\* signal, convert has returned that very error and no stage operation was
\* performed after the failing one.
C3_FatalAborts ==
    hist.fatal =>
        /\ Returned /\ ret = "Err" /\ err = hist.fatalOp
        /\ hist.afterFatal = 0

C3_Witness ==
    /\ hist.fatal /\ hist.fatalOp = "dec_recv" /\ site = "loop"
    /\ Len(output.packets) >= 1

PhaseOrder == <<"Init", "StreamingFirstFrame", "Streaming", "DrainDecoder",
                "DrainEncoder", "Finalized">>

\* C4: a successful run has gone through Init, StreamingFirstFrame,
\* Streaming, DrainDecoder, DrainEncoder, Finalized, each once and in this
\* order (and every run through a prefix of it); the decoder gets its
\* end-of-stream once, after all packets; the encoder gets its once, after
\* the final decoder drain ended; the trailer follows the final encoder
\* drain; nothing is submitted to a stage after its end-of-stream.
C4_PhaseOrder ==
    /\ \E n \in 1..Len(PhaseOrder) :
         \/ phases = SubSeq(PhaseOrder, 1, n)
         \/ phases = Append(SubSeq(PhaseOrder, 1, n), "Returned")
    /\ ret = "Ok" => /\ phases = Append(PhaseOrder, "Returned")
                     /\ hist.decEofs = 1 /\ hist.encEofs = 1
                     /\ output.trailers = 1
    /\ hist.decEofs <= 1 /\ hist.encEofs <= 1
    /\ hist.decEofs = 1 => Len(hist.submitted) = Len(frames)
    /\ hist.encEofs = 1 => decEof /\ hist.decDrained
    /\ output.trailers = 1 => encEof /\ hist.encDrained
    /\ hist.afterDecEof = 0 /\ hist.afterEncEof = 0

C4_Witness ==
    ret = "Ok" /\ Len(frames) >= 2 /\ Len(output.packets) = Len(frames)

C6_PtsNonDecreasing ==
    (\A k \in 1..Len(frames) : frames[k].delay > 0) =>
        \A i, j \in 1..Len(hist.submitted) :
            i < j => hist.submitted[i].pts <= hist.submitted[j].pts

C6_Witness ==
    /\ Len(hist.submitted) = 3
    /\ frames[1].delay = 250 /\ frames[2].delay = 100
    /\ hist.submitted[2].pts = 3 /\ hist.submitted[3].pts = 4

MinDelay == CHOOSE d \in {frames[k].delay : k \in 1..Len(frames)} :
                \A k \in 1..Len(frames) : d <= frames[k].delay

C8_EvenDims ==
    dst # <<0, 0>> =>
        LET sw == hist.firstGeom[2]
            sh == hist.firstGeom[3]
        IN /\ dst[1] % 2 = 0 /\ dst[2] % 2 = 0
           /\ sw <= dst[1] /\ dst[1] <= sw + 1
           /\ sh <= dst[2] /\ dst[2] <= sh + 1
           /\ (sw = 101 /\ sh = 99) => dst = <<102, 100>>
           /\ scaler # NoScaler => scaler.out = <<YUV420P, dst[1], dst[2]>>
           /\ encoder # NoEncoder => encoder.w = dst[1] /\ encoder.h = dst[2]

C8_Witness ==
    /\ hist.firstGeom[2] = 101 /\ hist.firstGeom[3] = 99
    /\ encoder # NoEncoder /\ encoder.w = 102 /\ encoder.h = 100

ExpectedKind(name) ==
    IF name \in {NamePNG, NamePng, NameMixed} THEN "PNG" ELSE "MJPEG"

\* C9: the decoder kind is the one of the first frame's filename (PNG when
\* its last three characters are "png" in any case, MJPEG otherwise, also
\* for names shorter than three characters) and it is the same after every
\* later frame; with no decoder of that kind convert fails before any
\* packet is submitted.
C9_CodecChoice ==
    /\ decoder # "none" => decoder = ExpectedKind(frames[1].filename)
    /\ hist.submitted # <<>> => decoder # "none"
    /\ err = "NoDecoder" => decoder = "none" /\ hist.submitted = <<>>

C9_Witness ==
    /\ Len(frames) = 2 /\ frames[1].filename = NamePNG /\ frames[2].filename = NameJpg
    /\ decoder = "PNG" /\ Len(hist.submitted) = 2 /\ ret = "Ok"

\* C10: the scaler's plan is rebuilt exactly on the frames whose geometry
\* differs from the frame scaled before them (the cached key), and after
\* each scale the cached key is the geometry of the frame just scaled.
C10_ScalerRebuild ==
    /\ hist.rebuilds = hist.changes
    /\ hist.lastGeom # <<"none", 0, 0>> => scaler.in = hist.lastGeom
    /\ hist.lastGeom = <<"none", 0, 0>> => hist.rebuilds = 0

C10_Witness ==
    /\ Len(hist.sent) = 2 /\ hist.rebuilds = 1 /\ hist.rebuiltLast
    /\ ret = "Ok"

DelaysOf(fs) == [k \in 1..Len(fs) |-> fs[k].delay]

MsOf(sub) == [k \in 1..Len(sub) |-> sub[k].ms]

\* C11 as stated: for delays [100, 200, 100] the three packets are stamped
\* [0, 1000, 3000] in milliseconds before the rescale.
C11_AsStated ==
    (DelaysOf(frames) = <<100, 200, 100>> /\ Len(hist.submitted) = 3) =>
        MsOf(hist.submitted) = <<0, 1000, 3000>>

\* C11 amended: for delays [100, 200, 100] the three packets are stamped
\* [0, 100, 300] in milliseconds before the rescale: the running sum of the
\* delays of the frames before each.
C11_Timestamps ==
    DelaysOf(frames) = <<100, 200, 100>> =>
        MsOf(hist.submitted) = SubSeq(<<0, 100, 300>>, 1, Len(hist.submitted))

C11_Witness ==
    /\ DelaysOf(frames) = <<100, 200, 100>>
    /\ MsOf(hist.submitted) = <<0, 100, 300>>
    /\ ts = 400

\* C12 as stated: the container has exactly one stream, a video stream,
\* whose time base is set to the encode time base lowestDelay/1000.
C12_AsStated ==
    (output.streams # <<>> /\ output.streams[1].time_base # <<0, 1>>) =>
        /\ Len(output.streams) = 1 /\ output.streams[1].kind = "video"
        /\ output.streams[1].time_base = <<MinDelay, 1000>>

\* C12 amended: the container has exactly one stream, a video stream,
\* whose time base is set to the fixed output time base 1/90000, the one the
\* packets are rescaled to before they are written; it is the encoder, not
\* the stream, that gets the encode time base lowestDelay/1000.
C12_StreamTimeBase ==
    /\ Len(output.streams) <= 1
    /\ output.headers = 1 => Len(output.streams) = 1
    /\ output.streams # <<>> =>
         /\ output.streams[1].kind = "video"
         /\ pc \notin {"open_encoder", "done"} => output.streams[1].time_base = <<1, 90000>>
         /\ output.streams[1].time_base \in {<<0, 1>>, <<1, 90000>>}
    /\ encoder # NoEncoder => /\ encoder.time_base = <<MinDelay, 1000>>
                              /\ output.streams[1].time_base = <<1, 90000>>

C12_Witness ==
    /\ ret = "Ok" /\ Len(output.streams) = 1
    /\ output.streams[1].time_base = <<1, 90000>>
    /\ encoder.time_base = <<100, 1000>>

\* C13: with a non-empty frame sequence, and a decoder and an encoder that
\* hold finitely many items, convert terminates: it returns, either with
\* success after the trailer was written or with an error, and stays in no
\* drain loop for ever.
C13_Terminates ==
    Len(frames) > 0 =>
        /\ <>Returned
        /\ [](Returned => \/ ret = "Ok" /\ output.trailers = 1
                          \/ ret = "Err" /\ err # "none")

C13_Witness ==
    /\ Returned /\ ret = "Ok" /\ Len(frames) = 3
    /\ hist.decSince = "EOF" /\ hist.encSince = "EOF"
    /\ Len(hist.emitted) = 3 /\ Len(hist.encEmitted) = 3

RECURSIVE SumDelays(_, _)
SumDelays(fs, n) == IF n = 0 THEN 0 ELSE SumDelays(fs, n - 1) + fs[n].delay

\* C14: the packets submitted are those of the FrameSpecs in order, one
\* each (all of them on a successful run), each flagged as a key unit; the
\* k-th is stamped, before the rescale, with the sum of the delays of
\* frames 1..k-1 and carries frame k's own delay as its duration.
C14_OnePacketPerFrame ==
    /\ Len(hist.submitted) <= Len(frames)
    /\ Len(hist.names) = Len(hist.submitted)
    /\ ret = "Ok" => Len(hist.submitted) = Len(frames)
    /\ \A k \in 1..Len(hist.submitted) :
         /\ hist.names[k] = frames[k].filename
         /\ hist.submitted[k].key
         /\ hist.submitted[k].ms = SumDelays(frames, k - 1)
         /\ hist.submitted[k].ms_duration = frames[k].delay

C14_Witness ==
    /\ ret = "Ok" /\ DelaysOf(frames) = <<250, 100, 200>>
    /\ MsOf(hist.submitted) = <<0, 250, 350>>
    /\ hist.names = <<NameJpg, NamePng, NameJpeg>>

\* C15 as stated: every packet submitted in the Streaming phase follows a
\* decoder drain that ended with "no frame available".
C15_AsStated ==
    pc = "send_packet" => hist.decSince = "EAGAIN"

\* C15: in the Streaming phase a packet whose predecessor was submitted in
\* that phase (the third frame's and later) is submitted only after the
\* decoder answered "no frame available"; the second frame's packet follows
\* the single receive of the first frame, which answered with a frame;
\* within a drain the next frame is asked of the decoder only after the
\* frame before it was scaled and sent and the encoder answered "no packet
\* available".
C15_DrainBeforeNext ==
    /\ pc = "send_packet" /\ idx >= 3 => hist.decSince = "EAGAIN"
    /\ pc = "send_packet" /\ idx = 2 => hist.decSince = "Ok" /\ hist.received = 1
    /\ pc \in {"send_packet", "for_next"} =>
         /\ hist.encSince = "EAGAIN"
         /\ Len(hist.sent) = hist.received
    /\ pc = "recv_frame" /\ hist.decSince = "Ok" =>
         /\ hist.encSince = "EAGAIN"
         /\ Len(hist.sent) = hist.received

C15_Witness ==
    /\ pc = "send_packet" /\ idx = 3 /\ hist.decSince = "EAGAIN"
    /\ hist.received = 2 /\ Len(hist.sent) = 2 /\ Len(output.packets) = 2

PtsOf(s) == [i \in 1..Len(s) |-> s[i].pts]

EncPtsOf(s) == [i \in 1..Len(s) |-> s[i].enc_pts]

IsPrefix(s, t) == Len(s) <= Len(t) /\ \A i \in 1..Len(s) : s[i] = t[i]

\* C16: on a successful run the frames sent to the encoder are the frames
\* the decoder gave out, once each and in that order, the packets written
\* are the packets the encoder gave out, once each and in that order, and
\* at the trailer neither stage holds an item; in every run what was passed
\* on is a prefix of what was given out, at most the last item behind.
C16_NothingLost ==
    /\ IsPrefix(PtsOf(hist.sent), hist.emitted)
    /\ Len(hist.emitted) - Len(hist.sent) <= 1
    /\ IsPrefix(EncPtsOf(output.packets), hist.encEmitted)
    /\ Len(hist.encEmitted) - Len(output.packets) <= 1
    /\ output.trailers > 0 =>
         /\ decBuf = <<>> /\ encBuf = <<>>
         /\ PtsOf(hist.sent) = hist.emitted
         /\ hist.emitted = PtsOf(hist.submitted)
         /\ EncPtsOf(output.packets) = hist.encEmitted
         /\ hist.encEmitted = PtsOf(hist.sent)

C16_Witness ==
    /\ ret = "Ok" /\ output.trailers = 1 /\ Len(frames) = 3
    /\ DelaysOf(frames) = <<100, 100, 100>>
    /\ hist.emitted = <<0, 1, 2>> /\ hist.encEmitted = <<0, 1, 2>>
    /\ EncPtsOf(output.packets) = <<0, 1, 2>>

\* C17: each packet written carries its encode-time-base timestamp rescaled
\* once to 1/90000, that is times (lowest delay)/1000 * 90000, and, the
\* encoder giving packets out in the order the frames were sent, the
\* written timestamps never decrease.
C17_WrittenInOrder ==
    /\ \A i \in 1..Len(output.packets) :
         output.packets[i].pts = output.packets[i].enc_pts * MinDelay * 90
    /\ \A i, j \in 1..Len(output.packets) :
         i < j => output.packets[i].pts <= output.packets[j].pts

C17_Witness ==
    /\ DelaysOf(frames) = <<100, 200, 250>>
    /\ EncPtsOf(output.packets) = <<0, 1, 3>>
    /\ PtsOf(output.packets) = <<0, 9000, 27000>>

\* C18: once the scaler is configured its destination is planar 4:2:0 at
\* the padded size of the first decoded frame and stays so through every
\* rebuild, which replaces the source key only; it is the geometry the
\* encoder was opened with and the geometry of every frame sent to it,
\* whatever the source geometry of later frames.
C18_FixedDestination ==
    /\ scaler # NoScaler =>
         /\ scaler.out = <<YUV420P, dst[1], dst[2]>>
         /\ dst = <<pad_even(hist.firstGeom[2]), pad_even(hist.firstGeom[3])>>
    /\ encoder # NoEncoder =>
         <<encoder.fmt, encoder.w, encoder.h>> = scaler.out
    /\ \A i \in 1..Len(hist.sent) :
         hist.sent[i].geom = <<encoder.fmt, encoder.w, encoder.h>>
    /\ scaled # NoFrame => geom_of(scaled) = scaler.out

C18_Witness ==
    /\ Len(hist.sent) = 3 /\ hist.rebuilds = 2 /\ hist.rebuiltLast
    /\ hist.firstGeom = <<"rgb24", 101, 99>>
    /\ hist.lastGeom = <<"rgb24", 100, 98>>
    /\ hist.sent[3].geom = <<YUV420P, 102, 100>>

\* C19: with positive delays the timestamps of successive packets after the
\* rescale into the encode time base are strictly increasing: consecutive
\* millisecond stamps differ by at least the lowest delay, so by at least
\* one tick after rounding, and no two frames reach the encoder with the
\* same timestamp.
C19_StrictlyIncreasing ==
    (\A k \in 1..Len(frames) : frames[k].delay > 0) =>
        /\ \A k \in 1..(Len(hist.submitted) - 1) :
             /\ hist.submitted[k + 1].ms - hist.submitted[k].ms >= MinDelay
             /\ hist.submitted[k + 1].pts - hist.submitted[k].pts >= 1
        /\ \A i, j \in 1..Len(hist.sent) :
             i < j => hist.sent[i].pts < hist.sent[j].pts

C19_Witness ==
    /\ DelaysOf(frames) = <<250, 100, 100>>
    /\ PtsOf(hist.submitted) = <<0, 3, 4>>
    /\ PtsOf(hist.sent) = <<0, 3, 4>>

AllMultiples == \A k \in 1..Len(frames) : frames[k].delay % MinDelay = 0

\* C20: the i-th packet written belongs to the i-th frame, whose cumulative
\* start time is t ms; its output timestamp is round(t / lowest delay) *
\* lowest delay * 90, halves rounded up, which is exactly 90 * t when every
\* delay is a multiple of the lowest delay and can differ from 90 * t
\* otherwise.
C20_RescalesCompose ==
    \A i \in 1..Len(output.packets) :
        LET t == hist.submitted[i].ms IN
        /\ output.packets[i].pts =
               (((2 * t) + MinDelay) \div (2 * MinDelay)) * MinDelay * 90
        /\ AllMultiples => /\ output.packets[i].enc_pts * MinDelay = t
                           /\ output.packets[i].pts = 90 * t

C20_MultiplesReached ==
    /\ DelaysOf(frames) = <<200, 100, 200>>
    /\ PtsOf(output.packets) = <<0, 18000, 27000>>

C20_Witness ==
    /\ DelaysOf(frames) = <<250, 100, 200>>
    /\ MsOf(hist.submitted) = <<0, 250, 350>>
    /\ PtsOf(output.packets) = <<0, 27000, 36000>>

====
